---- MODULE Spec2Model ----
(***************************************************************************)
(* The differential timer dt: the measurement state machine of the final   *)
(* header (src/unnamed/part_000), driven by zone(), start(), slice(),      *)
(* clear_results() and factory_reset().                                    *)
(*                                                                         *)
(* Indices are 0-based as in the source: zone i of the registry is         *)
(* state.zones[i + 1] here. The slice() overload without an argument only  *)
(* reads the clock and calls slice(time_delta_ms), which is the one        *)
(* modelled.                                                               *)
(***************************************************************************)
EXTENDS Integers, Sequences, FiniteSets, TLC

\* ---------------------------------------------------------------- bounds

\* Largest configured target_sample_count explored.
MaxSamples == 2

\* Largest configured warmup_runs explored.
MaxWarmup == 1

\* Largest number of regions of the test loop explored, of its three.
MaxZones == 2

\* Longest sequence handed to a statistics function called on its own.
MaxLen == 4

\* Largest whole number in such a sequence.
MaxValue == 4

\* Largest number of thousandths, of those tried one by one, handed to
\* get_num_str.
MaxMilli == 2100

\* Largest number of significant digits asked of get_num_str.
MaxDigits == 4

\* ---------------------------------------------------------------- host data

\* The zone names and synthetic region costs of the test loop.
HostNames == <<"draw background", "draw shadows", "draw bunnies">>

HostCosts == <<5, 3, 7>>

\* The names a host that calls in any order uses.
UserNames == {"draw background", "draw shadows"}

\* Every name zone() is called with, the empty name included.
ZoneNames == UserNames \cup {""}

\* The frame times of a host that calls in any order.
ElapsedValues == {1, 2}

Cost(name) == IF \E i \in 1..Len(HostNames) : HostNames[i] = name
              THEN HostCosts[CHOOSE i \in 1..Len(HostNames) : HostNames[i] = name]
              ELSE 0

RECURSIVE SumCost(_)
SumCost(names) == IF names = {} THEN 0
                  ELSE LET n == CHOOSE x \in names : TRUE
                       IN Cost(n) + SumCost(names \ {n})

\* ---------------------------------------------------------------- state

VARIABLES
    dt_state,      \* State: status, zones, target_zone, recorded_slices, warmup_runs_left
    config,        \* Config: target_sample_count, warmup_runs, report_out_mode, report_time_mode, done_cb
    results,       \* dt::results
    result_str,    \* dt::result_str, as the sequence of its rows' name columns
    crashed,       \* the process was ended by an out-of-bounds write
    last,          \* the most recent call and what it did
    ran,           \* names whose zone() call returned true since the last slice;
                   \* under the older header, every name zone() was called with
    late,          \* names first registered while Measuring, in the running pass
    pass_evals,    \* evaluations since start() was last accepted
    pass_slices,   \* slice calls since start() was last accepted, until the pass ends
    skipped,       \* names whose zone() call returned false since the last slice, start or reset
    repeat,        \* the last zone() call asked a name already asked in this iteration;
                   \* under the older header, some zone() call did
    done_ms,       \* the host_ms of the last two passes the test loop completed
    host_ms,       \* the host's frame time, or the time a unit of cost takes in the
                   \* test loop; drawn again when a start() is accepted
    nzones,        \* the host loop's number of regions
    was_reset,     \* the configuring host has called factory_reset()
    since_new,     \* slice calls since a name was last registered, or start()
                   \* accepted, by the host that is watched for termination
    pc,            \* the host loop's position in its iteration: regions queried so far
    call_args,     \* the argument of a details:: function called on its own
    call_ret       \* what that call returned: <<>> before it, <<value>> after it

vars == <<dt_state, config, results, result_str, crashed, last, ran, late,
          pass_evals, pass_slices, skipped, repeat, done_ms, host_ms, nzones,
          was_reset, since_new, pc, call_args, call_ret>>

progVars == <<dt_state, config, results, result_str>>

callVars == <<call_args, call_ret>>

Status == {"Ready", "Starting", "Measuring"}

ReportOutMode == {"JustEval", "ConsoleOut"}

ReportTimeMode == {"Ms", "Fps"}

\* The completion callbacks explored: none, and one that reads its argument
\* and calls dt::start().
DoneCallback == {"nullptr", "calls_start"}

Zone(name) == [name |-> name, frame_times |-> <<>>]

State0 == [status |-> "Ready", zones |-> <<>>, target_zone |-> 0,
           recorded_slices |-> 0, warmup_runs_left |-> 0]

\* was: the status a factory_reset() call found ("" for every other call).
\* cb_saw: what the completion callback found when it was called, and the
\* status it left.
NoCall == [op |-> "none", name |-> "", ret |-> TRUE, evaluated |-> FALSE,
           printed |-> <<>>, cb_args |-> <<>>, cb_saw |-> <<>>, was |-> ""]

Call(op) == [NoCall EXCEPT !.op = op]

\* ---------------------------------------------------------------- details

get_zone_index(zone_name, state) ==
    IF \E i \in 1..Len(state.zones) : state.zones[i].name = zone_name
    THEN (CHOOSE i \in 1..Len(state.zones) :
             /\ state.zones[i].name = zone_name
             /\ \A j \in 1..(i - 1) : state.zones[j].name # zone_name) - 1
    ELSE -1

is_zone_known(zone_name, state) == get_zone_index(zone_name, state) # -1

\* A slip of the comparison: > for >=.
is_sample_target_reached_gt(state, pconfig) ==
    state.recorded_slices > pconfig.target_sample_count

is_sample_target_reached(state, pconfig) ==
    state.recorded_slices >= pconfig.target_sample_count

\* are_all_zones_done() that does not wait for the last zone.
are_all_zones_done_but_last(state) == state.target_zone >= Len(state.zones) - 1

are_all_zones_done(state) == state.target_zone >= Len(state.zones)

\* A reset that empties the registry as well.
reset_state_clears_registry(state, pconfig) ==
    [state EXCEPT !.target_zone = 0,
                  !.recorded_slices = 0,
                  !.warmup_runs_left = pconfig.warmup_runs,
                  !.zones = <<>>]

\* The older header's reset: only the null zone's samples are cleared.
reset_state_null_zone_only(state, pconfig) ==
    [state EXCEPT !.target_zone = 0,
                  !.recorded_slices = 0,
                  !.warmup_runs_left = pconfig.warmup_runs,
                  !.zones = [i \in 1..Len(state.zones) |->
                                IF i = 1 THEN [state.zones[i] EXCEPT !.frame_times = <<>>]
                                ELSE state.zones[i]]]

reset_state(state, pconfig) ==
    [state EXCEPT !.target_zone = 0,
                  !.recorded_slices = 0,
                  !.warmup_runs_left = pconfig.warmup_runs,
                  !.zones = [i \in 1..Len(state.zones) |->
                                [state.zones[i] EXCEPT !.frame_times = <<>>]]]

\* float_type values handed to the statistics are counted in halves, so that
\* the 0.5 * (a + b) of two whole numbers is held exactly.
Float(n) == 2 * n

\* get_median() returning the upper of the two middle elements for even sizes.
get_median_upper_middle(sorted_vec) ==
    IF sorted_vec = <<>> THEN 0
    ELSE sorted_vec[Len(sorted_vec) \div 2 + 1]

get_median(sorted_vec) ==
    IF sorted_vec = <<>>
    THEN 0
    ELSE IF Len(sorted_vec) % 2 = 0
         THEN LET i_middle_left == Len(sorted_vec) \div 2 - 1
              IN (sorted_vec[i_middle_left + 1] + sorted_vec[i_middle_left + 2]) \div 2
         ELSE LET i_middle == Len(sorted_vec) \div 2
              IN sorted_vec[i_middle + 1]

\* The statistics that divide are held as exact fractions [num, den] of
\* whole numbers; a den of 0 is the outcome of a division by zero.
RECURSIVE SeqSum(_)
SeqSum(vec) == IF vec = <<>> THEN 0 ELSE vec[1] + SeqSum(Tail(vec))

get_mean(vec) == [num |-> SeqSum(vec), den |-> Len(vec)]

\* The squares of get_std_dev(): the sum of (value - mean)^2, over mean.den^2.
Squares(vec, mean) ==
    [num |-> SeqSum([i \in 1..Len(vec) |->
                        (vec[i] * mean.den - mean.num) * (vec[i] * mean.den - mean.num)]),
     den |-> mean.den * mean.den]

\* get_std_dev() dividing by the number of values.
get_std_dev_uncorrected(vec, mean) ==
    [sqrt_of |-> [num |-> Squares(vec, mean).num,
                  den |-> Squares(vec, mean).den * Len(vec)]]

\* get_std_dev() returns the square root of the fraction sqrt_of.
get_std_dev(vec, mean) ==
    [sqrt_of |-> [num |-> Squares(vec, mean).num,
                  den |-> Squares(vec, mean).den * (Len(vec) - 1)]]

SortedTimes(times) == SortSeq(times, LAMBDA a, b : a < b)

\* get_results() without its std::sort.
get_results_unsorted(zones) ==
    [i \in 1..Len(zones) |->
        [name |-> zones[i].name, sorted_times |-> zones[i].frame_times]]

\* zr.worst_time, which get_results() reads off the sorted times as their
\* back(); it is defined for times that are not empty.
worst_time(sorted_times) == sorted_times[Len(sorted_times)]

get_results(zones) ==
    [i \in 1..Len(zones) |->
        [name |-> zones[i].name,
         sorted_times |-> SortedTimes(zones[i].frame_times)]]

\* ---------------------------------------------------------------- details::printing

\* The numbers that are printed are counted in thousandths, and the strings
\* made of them are sequences of characters.
Scale == 1000

Abs(n) == IF n < 0 THEN 0 - n ELSE n

RECURSIVE Pow10(_)
Pow10(n) == IF n <= 0 THEN 1 ELSE 10 * Pow10(n - 1)

\* static_cast<int> of a value that is not negative, instead of std::round.
RoundTowardZero(num, den) == num \div den

\* std::round of num / den: to the nearest whole number, halves away from zero.
Round(num, den) ==
    IF num < 0 THEN 0 - ((2 * (0 - num) + den) \div (2 * den))
    ELSE (2 * num + den) \div (2 * den)

DigitChars == <<"0", "1", "2", "3", "4", "5", "6", "7", "8", "9">>

\* std::to_string of an int.
RECURSIVE to_string(_)
to_string(i) ==
    IF i < 0 THEN <<"-">> \o to_string(0 - i)
    ELSE IF i < 10 THEN <<DigitChars[i + 1]>>
    ELSE to_string(i \div 10) \o <<DigitChars[(i % 10) + 1]>>

\* static_cast<int>(std::log10(whole)) of a whole number of 1 or more.
RECURSIVE IntLog10(_)
IntLog10(whole) == IF whole < 10 THEN 0 ELSE 1 + IntLog10(whole \div 10)

auto_get_digits_before_point(num) ==
    IF Abs(num) < Scale THEN 0
    ELSE LET digits == IntLog10(Abs(num) \div Scale) + 1
         IN IF digits > 0 THEN digits ELSE 0

\* std::string::resize(digits, '0'): cut at digits characters, or filled up
\* to them with '0' at the end.
Resize(str, digits) ==
    IF Len(str) >= digits THEN SubSeq(str, 1, digits)
    ELSE str \o [k \in 1..(digits - Len(str)) |-> "0"]

get_fractional_string(num, digits) ==
    LET integral == (Abs(num) \div Scale) * (IF num < 0 THEN 0 - 1 ELSE 1)
        fractional == num - integral * Scale
        i == Round(fractional * Pow10(digits), Scale)
    IN Resize(to_string(i), digits)

get_num_str(num, significant_digits, with_sign) ==
    LET s == IF with_sign THEN (IF num < 0 THEN <<"-">> ELSE <<"+">>) ELSE <<>>
        abs_num == Abs(num)
        whole_rounded == Round(abs_num, Scale)
        rounded_predot_digits == auto_get_digits_before_point(whole_rounded * Scale)
    IN IF rounded_predot_digits >= significant_digits
       THEN s \o to_string(whole_rounded)
       ELSE LET predot_digits == auto_get_digits_before_point(abs_num)
                digits_left == significant_digits - predot_digits
            IN s \o to_string(abs_num \div Scale)
                 \o (IF digits_left > 0
                     THEN <<".">> \o get_fractional_string(abs_num, digits_left)
                     ELSE <<>>)

\* a * b / c in thousandths, for a and c in thousandths and a whole b, cut
\* toward zero; computed in steps that stay small.
MulDiv(a, b, c) ==
    LET n == Abs(a) * b
        q == (n \div c) * Scale + ((n % c) * Scale) \div c
    IN IF a < 0 THEN 0 - q ELSE q

EvalType == {"Median", "Mean", "Worst", "StdDev"}

get_max_zone_name_len(lresults, min_len) ==
    LET lens == {Len(lresults[i].name) : i \in 1..Len(lresults)} \cup {min_len}
    IN CHOOSE l \in lens : \A k \in lens : k <= l

\* A ZoneResult as the report reads it: the name as a sequence of characters
\* and median, mean, worst_time and std_dev in thousandths.
get_result_eval(result, eval_type, time_mode) ==
    IF eval_type = "StdDev" THEN result.std_dev
    ELSE LET ms_value == CASE eval_type = "Median" -> result.median
                           [] eval_type = "Mean" -> result.mean
                           [] eval_type = "Worst" -> result.worst_time
         IN IF time_mode = "Ms" THEN ms_value
            ELSE MulDiv(1000 * Scale, 1, ms_value)

get_percentage(numerator, denominator) == MulDiv(numerator, 100, denominator)

\* get_cell_str() with the difference to the baseline given for the null
\* zone as well.
get_cell_str_always_diff(result, baseline_result, is_null_zone, eval_type, time_mode) ==
    LET value == get_result_eval(result, eval_type, time_mode)
    IN IF eval_type = "StdDev"
       THEN get_num_str(get_percentage(value, result.mean), 3, FALSE)
       ELSE LET baseline == get_result_eval(baseline_result, eval_type, time_mode)
                improv_percent == get_percentage(value - baseline, baseline)
            IN get_num_str(value, 3, FALSE) \o <<" ", "(">>
                  \o get_num_str(improv_percent, 2, TRUE) \o <<"%", ")">>

get_cell_str(result, baseline_result, is_null_zone, eval_type, time_mode) ==
    LET value == get_result_eval(result, eval_type, time_mode)
    IN IF eval_type = "StdDev"
       THEN get_num_str(get_percentage(value, result.mean), 3, FALSE)
       ELSE LET cell_str == get_num_str(value, 3, FALSE)
            IN IF is_null_zone THEN cell_str
               ELSE LET baseline == get_result_eval(baseline_result, eval_type, time_mode)
                        diff == value - baseline
                        improv_percent == get_percentage(diff, baseline)
                    IN cell_str \o <<" ", "(">>
                          \o get_num_str(improv_percent, 2, TRUE) \o <<"%", ")">>

\* TableRow: the cells of one statistic, one per result, and max_width.
get_table_row(presults, eval_type, time_mode) ==
    LET cells == [i \in 1..Len(presults) |->
                     get_cell_str(presults[i], presults[1], i = 1, eval_type, time_mode)]
        widths == {Len(cells[i]) : i \in 1..Len(cells)} \cup {3}
    IN [cells |-> cells,
        max_width |-> CHOOSE w \in widths : \A k \in widths : k <= w]

get_result_table(lresults, time_mode) ==
    [median |-> get_table_row(lresults, "Median", time_mode),
     mean |-> get_table_row(lresults, "Mean", time_mode),
     worst |-> get_table_row(lresults, "Worst", time_mode),
     std_dev |-> get_table_row(lresults, "StdDev", time_mode)]

get_united_str(description, pconfig) ==
    IF pconfig.report_time_mode = "Fps"
    THEN description \o <<"[", "f", "p", "s", "]">>
    ELSE description \o <<"[", "m", "s", "]">>

\* snprintf's %-*s and %*s: filled with blanks behind or in front, up to
\* width; a longer string is printed whole.
PadRight(str, width) ==
    IF Len(str) >= width THEN str ELSE str \o [k \in 1..(width - Len(str)) |-> " "]

PadLeft(str, width) ==
    IF Len(str) >= width THEN str ELSE [k \in 1..(width - Len(str)) |-> " "] \o str

header_print(name_col_len, table, pconfig) ==
    PadLeft(<<>>, name_col_len) \o <<" ">>
       \o PadRight(get_united_str(<<"m", "e", "d", "i", "a", "n">>, pconfig),
                   table.median.max_width) \o <<" ">>
       \o PadRight(get_united_str(<<"m", "e", "a", "n">>, pconfig),
                   table.mean.max_width) \o <<" ">>
       \o PadRight(get_united_str(<<"w", "o", "r", "s", "t">>, pconfig),
                   table.worst.max_width) \o <<" ">>
       \o PadRight(<<"s", "t", "d", " ", "d", "e", "v", "[", "%", "]">>,
                   table.std_dev.max_width) \o <<"\n">>

row_print(name_col_len, name_col, table, i) ==
    PadRight(name_col, name_col_len) \o <<" ">>
       \o PadRight(table.median.cells[i], table.median.max_width) \o <<" ">>
       \o PadRight(table.mean.cells[i], table.mean.max_width) \o <<" ">>
       \o PadRight(table.worst.cells[i], table.worst.max_width) \o <<" ">>
       \o PadRight(table.std_dev.cells[i], table.std_dev.max_width) \o <<"\n">>

\* printing::get_result_str() in full, as the sequence of the lines it puts
\* together, each a sequence of characters.
get_result_lines(lresults, pconfig) ==
    LET wo_prefix == <<"w", "/", "o", " ">>
        name_col_len == get_max_zone_name_len(lresults, 3) + Len(wo_prefix) + 1
        table == get_result_table(lresults, pconfig.report_time_mode)
    IN <<header_print(name_col_len, table, pconfig)>>
          \o [i \in 1..Len(lresults) |->
                LET name_col == (IF i # 1 THEN wo_prefix \o lresults[i].name
                                 ELSE <<"a", "l", "l">>) \o <<":">>
                IN row_print(name_col_len, name_col, table, i)]

\* ---------------------------------------------------------------- details, the recording

\* zones[target_zone] is written only when it exists; the out-of-bounds write
\* of an empty or too short registry lands outside the state modelled here.
record_slice(state, time_delta_ms) ==
    [state EXCEPT
        !.zones = IF state.target_zone < Len(state.zones)
                  THEN [state.zones EXCEPT ![state.target_zone + 1].frame_times =
                            Append(@, time_delta_ms)]
                  ELSE state.zones,
        !.recorded_slices = @ + 1]

start_next_zone_measurement(state) ==
    [state EXCEPT !.target_zone = @ + 1, !.recorded_slices = 0]

\* The name column of every row of the report: the header's is empty.
get_result_str(lresults) ==
    <<"">> \o [i \in 1..Len(lresults) |->
                  IF i = 1 THEN "all:" ELSE "w/o " \o lresults[i].name \o ":"]

\* The state pconfig.done_cb is called in, and the status it returns in.
callback_saw(pconfig, found, left) ==
    IF pconfig.done_cb # "nullptr"
    THEN <<[status |-> found.status, target_zone |-> found.target_zone,
            zones_size |-> Len(found.zones), left |-> left.status]>>
    ELSE <<>>

\* start() without its guard.
start_status_unguarded(status) == "Starting"

start_status(status) == IF status = "Ready" THEN "Starting" ELSE status

\* evaluate() without its last line: the status is left as it was.
evaluate_keeps_status(pconfig, pstate) ==
    LET presults == get_results(pstate.zones)
        presult_str == get_result_str(presults)
    IN [results |-> presults,
        result_str |-> presult_str,
        printed |-> IF pconfig.report_out_mode = "ConsoleOut"
                    THEN <<presult_str>> ELSE <<>>,
        cb_args |-> IF pconfig.done_cb # "nullptr" THEN <<presults>> ELSE <<>>,
        cb_saw |-> callback_saw(pconfig, pstate, pstate),
        state |-> pstate]

\* evaluate() printing whatever the output mode.
evaluate_prints_always(pconfig, pstate) ==
    LET presults == get_results(pstate.zones)
        presult_str == get_result_str(presults)
        in_cb == IF pconfig.done_cb = "calls_start"
                 THEN [pstate EXCEPT !.status = start_status(@)]
                 ELSE pstate
    IN [results |-> presults,
        result_str |-> presult_str,
        printed |-> <<presult_str>>,
        cb_args |-> IF pconfig.done_cb # "nullptr" THEN <<presults>> ELSE <<>>,
        cb_saw |-> callback_saw(pconfig, pstate, in_cb),
        state |-> [in_cb EXCEPT !.status = "Ready"]]

\* evaluate(): what it stores, prints and hands to the callback, and the state
\* it leaves. The callback runs before the status is set.
evaluate(pconfig, pstate) ==
    LET presults == get_results(pstate.zones)
        presult_str == get_result_str(presults)
        in_cb == IF pconfig.done_cb = "calls_start"
                 THEN [pstate EXCEPT !.status = start_status(@)]
                 ELSE pstate
    IN [results |-> presults,
        result_str |-> presult_str,
        printed |-> IF pconfig.report_out_mode = "ConsoleOut"
                    THEN <<presult_str>> ELSE <<>>,
        cb_args |-> IF pconfig.done_cb # "nullptr" THEN <<presults>> ELSE <<>>,
        cb_saw |-> callback_saw(pconfig, pstate, in_cb),
        state |-> [in_cb EXCEPT !.status = "Ready"]]

\* The divisor of get_std_dev().
std_dev_divisor(vec) == Len(vec) - 1

\* ---------------------------------------------------------------- dt::zone

\* zone() starting the samples of the target zone over when it registers a
\* name.
zone_registered_restarts_target(zone_name, state) ==
    LET with_null == IF state.zones = <<>>
                     THEN [state EXCEPT !.zones = <<Zone("")>>] ELSE state
    IN IF ~is_zone_known(zone_name, with_null)
       THEN [with_null EXCEPT !.zones = Append(@, Zone(zone_name)),
                              !.recorded_slices = 0]
       ELSE with_null

\* zone() without its first block: no null zone is put in an empty registry.
zone_registered_no_null_zone(zone_name, state) ==
    IF ~is_zone_known(zone_name, state)
    THEN [state EXCEPT !.zones = Append(@, Zone(zone_name))]
    ELSE state

\* The older header's rule: no name is registered while Measuring.
zone_registered_not_measuring(zone_name, state) ==
    LET with_null == IF state.zones = <<>> THEN <<Zone("")>> ELSE state.zones
        s1 == [state EXCEPT !.zones = with_null]
    IN IF ~is_zone_known(zone_name, s1) /\ state.status # "Measuring"
       THEN [s1 EXCEPT !.zones = Append(@, Zone(zone_name))]
       ELSE s1

\* A new name is put right behind the null zone instead of at the end.
zone_registered_in_front(zone_name, state) ==
    LET with_null == IF state.zones = <<>> THEN <<Zone("")>> ELSE state.zones
        s1 == [state EXCEPT !.zones = with_null]
    IN IF ~is_zone_known(zone_name, s1)
       THEN [s1 EXCEPT !.zones = <<Head(@), Zone(zone_name)>> \o Tail(@)]
       ELSE s1

zone_registered(zone_name, state) ==
    LET with_null == IF state.zones = <<>> THEN <<Zone("")>> ELSE state.zones
        s1 == [state EXCEPT !.zones = with_null]
    IN IF ~is_zone_known(zone_name, s1)
       THEN [s1 EXCEPT !.zones = Append(@, Zone(zone_name))]
       ELSE s1

\* zone() without its test for the baseline target.
zone_return_no_baseline(zone_name, state) ==
    IF state.status = "Measuring"
    THEN LET current_zone == get_zone_index(zone_name, state)
         IN current_zone # state.target_zone
    ELSE TRUE

\* zone() comparing against the index after the target.
zone_return_off_by_one(zone_name, state) ==
    IF state.status = "Measuring"
    THEN LET current_zone == get_zone_index(zone_name, state)
         IN IF state.target_zone = 0 THEN TRUE
            ELSE current_zone # state.target_zone + 1
    ELSE TRUE

zone_return(zone_name, state) ==
    IF state.status = "Measuring"
    THEN LET current_zone == get_zone_index(zone_name, state)
         IN IF state.target_zone = 0 THEN TRUE
            ELSE current_zone # state.target_zone
    ELSE TRUE

zone(zone_name) ==
    LET s == zone_registered(zone_name, dt_state)
        ret == zone_return(zone_name, s)
    IN /\ ~crashed
       /\ dt_state' = s
       /\ last' = [Call("zone") EXCEPT !.name = zone_name, !.ret = ret]
       /\ late' = IF dt_state.status = "Measuring" /\ ~is_zone_known(zone_name, dt_state)
                     /\ zone_name # ""
                  THEN late \cup {zone_name} ELSE late
       /\ UNCHANGED <<config, results, result_str, crashed, pass_evals, callVars>>

\* ---------------------------------------------------------------- dt::start

start ==
    /\ ~crashed
    /\ dt_state' = [dt_state EXCEPT !.status = start_status(@)]
    /\ last' = Call("start")
    /\ pass_evals' = IF dt_state.status = "Ready" THEN 0 ELSE pass_evals
    /\ UNCHANGED <<config, results, result_str, crashed, late, callVars>>

\* ---------------------------------------------------------------- dt::slice

\* What one slice(time_delta_ms) call does, as a record of the state after it
\* and of its effects.
slice_keep(state) ==
    [state |-> state, evaluated |-> FALSE, results |-> results,
     result_str |-> result_str, printed |-> <<>>, cb_args |-> <<>>,
     cb_saw |-> <<>>]

\* The branch for Status::Starting.
slice_starting(state, pconfig) ==
    slice_keep([reset_state(state, pconfig) EXCEPT !.status = "Measuring"])

\* A warmup run that counts down and records its time all the same.
slice_warmup_records(state, time_delta_ms) ==
    slice_keep([record_slice(state, time_delta_ms) EXCEPT !.warmup_runs_left = @ - 1])

\* The branch for a warmup run: count down and return.
slice_warmup(state, time_delta_ms) ==
    slice_keep([state EXCEPT !.warmup_runs_left = @ - 1])

\* The rest of the branch for Status::Measuring.
slice_record(state, pconfig, time_delta_ms) ==
    LET s1 == record_slice(state, time_delta_ms)
    IN IF is_sample_target_reached(s1, pconfig)
       THEN LET s2 == start_next_zone_measurement(s1)
            IN IF are_all_zones_done(s2)
               THEN LET ev == evaluate(pconfig, s2)
                    IN [state |-> ev.state, evaluated |-> TRUE,
                        results |-> ev.results, result_str |-> ev.result_str,
                        printed |-> ev.printed, cb_args |-> ev.cb_args,
                        cb_saw |-> ev.cb_saw]
               ELSE slice_keep(s2)
       ELSE slice_keep(s1)

\* slice() without its early return for Status::Ready.
slice_effect_no_ready_return(state, pconfig, time_delta_ms) ==
    IF state.status \in {"Ready", "Starting"} THEN slice_starting(state, pconfig)
    ELSE IF state.warmup_runs_left > 0 THEN slice_warmup(state, time_delta_ms)
    ELSE slice_record(state, pconfig, time_delta_ms)

slice_effect(state, pconfig, time_delta_ms) ==
    IF state.status = "Ready" THEN slice_keep(state)
    ELSE IF state.status = "Starting" THEN slice_starting(state, pconfig)
    ELSE IF state.warmup_runs_left > 0 THEN slice_warmup(state, time_delta_ms)
    ELSE slice_record(state, pconfig, time_delta_ms)

\* The slice call reaches record_slice with no zones[target_zone] to write.
slice_out_of_bounds(state) ==
    /\ state.status = "Measuring"
    /\ state.warmup_runs_left <= 0
    /\ state.target_zone >= Len(state.zones)

\* The outcomes of the out-of-bounds write: the process is ended, or the write
\* goes unnoticed and the call carries on.
slice(time_delta_ms) ==
    /\ ~crashed
    /\ \E aborts \in BOOLEAN :
        IF slice_out_of_bounds(dt_state) /\ aborts
        THEN /\ crashed' = TRUE
             /\ last' = Call("slice")
             /\ UNCHANGED <<dt_state, config, results, result_str, late, pass_evals, callVars>>
        ELSE LET eff == slice_effect(dt_state, config, time_delta_ms)
             IN /\ dt_state' = eff.state
                /\ results' = eff.results
                /\ result_str' = eff.result_str
                /\ last' = [Call("slice") EXCEPT !.evaluated = eff.evaluated,
                                                 !.printed = eff.printed,
                                                 !.cb_args = eff.cb_args,
                                                 !.cb_saw = eff.cb_saw]
                /\ late' = IF dt_state.status = "Starting" THEN {} ELSE late
                /\ pass_evals' = IF eff.evaluated THEN pass_evals + 1 ELSE pass_evals
                /\ UNCHANGED <<config, crashed, callVars>>

\* ---------------------------------------------------------------- dt::set_*

set_sample_count(n) ==
    /\ ~crashed
    /\ config' = [config EXCEPT !.target_sample_count = n]
    /\ last' = Call("set_sample_count")
    /\ UNCHANGED <<dt_state, results, result_str, crashed, late, pass_evals, callVars>>

set_warmup_runs(n) ==
    /\ ~crashed
    /\ config' = [config EXCEPT !.warmup_runs = n]
    /\ last' = Call("set_warmup_runs")
    /\ UNCHANGED <<dt_state, results, result_str, crashed, late, pass_evals, callVars>>

set_report_out_mode(report_mode) ==
    /\ ~crashed
    /\ config' = [config EXCEPT !.report_out_mode = report_mode]
    /\ last' = Call("set_report_out_mode")
    /\ UNCHANGED <<dt_state, results, result_str, crashed, late, pass_evals, callVars>>

set_report_time_mode(report_time_mode) ==
    /\ ~crashed
    /\ config' = [config EXCEPT !.report_time_mode = report_time_mode]
    /\ last' = Call("set_report_time_mode")
    /\ UNCHANGED <<dt_state, results, result_str, crashed, late, pass_evals, callVars>>

set_done_callback(cb) ==
    /\ ~crashed
    /\ config' = [config EXCEPT !.done_cb = cb]
    /\ last' = Call("set_done_callback")
    /\ UNCHANGED <<dt_state, results, result_str, crashed, late, pass_evals, callVars>>

\* ---------------------------------------------------------------- dt::are_results_ready

are_results_ready(state) == state.status = "Ready" /\ state.recorded_slices > 0

\* ---------------------------------------------------------------- dt::clear_results

\* clear_results() without its second line: the report is kept.
clear_results_keeps_report ==
    /\ ~crashed
    /\ results' = <<>>
    /\ last' = Call("clear_results")
    /\ UNCHANGED <<dt_state, config, result_str, crashed, late, pass_evals, callVars>>

clear_results ==
    /\ ~crashed
    /\ results' = <<>>
    /\ result_str' = <<>>
    /\ last' = Call("clear_results")
    /\ UNCHANGED <<dt_state, config, crashed, late, pass_evals, callVars>>

\* ---------------------------------------------------------------- dt::factory_reset

\* factory_reset() without its second line: the status is left as it was.
factory_reset_state_keeps_status(state, pconfig) ==
    reset_state([state EXCEPT !.zones = <<>>], pconfig)

\* factory_reset() putting back the state of a fresh process, whose warmup
\* is not the configured one.
factory_reset_state_initial(state, pconfig) == State0

\* What factory_reset() does to dt_state.
factory_reset_state(state, pconfig) ==
    reset_state([state EXCEPT !.zones = <<>>, !.status = "Ready"], pconfig)

factory_reset ==
    /\ ~crashed
    /\ dt_state' = factory_reset_state(dt_state, config)
    /\ results' = <<>>
    /\ result_str' = <<>>
    /\ last' = [Call("factory_reset") EXCEPT !.was = dt_state.status]
    /\ late' = {}
    /\ UNCHANGED <<config, crashed, pass_evals, callVars>>

\* ---------------------------------------------------------------- specifications

Configs == [target_sample_count : 1..MaxSamples,
            warmup_runs : 0..MaxWarmup,
            report_out_mode : ReportOutMode,
            report_time_mode : {"Ms"},
            done_cb : DoneCallback]

Init ==
    /\ dt_state = State0
    /\ config \in Configs
    /\ results = <<>>
    /\ result_str = <<>>
    /\ crashed = FALSE
    /\ last = NoCall
    /\ ran = {}
    /\ late = {}
    /\ pass_evals = 0
    /\ pass_slices = 0
    /\ skipped = {}
    /\ repeat = FALSE
    /\ done_ms = <<>>
    /\ host_ms \in ElapsedValues
    /\ nzones = 0
    /\ was_reset = FALSE
    /\ since_new = 0
    /\ pc = 0
    /\ call_args = <<>>
    /\ call_ret = <<>>

\* Any call at any time, in any order.
loopVars == <<ran, pass_slices, skipped, repeat, done_ms, nzones, was_reset, since_new, pc>>

Zones == \E n \in ZoneNames : zone(n) /\ UNCHANGED <<host_ms, loopVars>>

Start == \E t \in ElapsedValues :
            /\ start
            /\ host_ms' = IF dt_state.status = "Ready" THEN t ELSE host_ms
            /\ UNCHANGED loopVars

Slice == slice(host_ms) /\ UNCHANGED <<host_ms, loopVars>>

ClearResults == clear_results /\ UNCHANGED <<host_ms, loopVars>>

FactoryReset == factory_reset /\ UNCHANGED <<host_ms, loopVars>>

Next == Zones \/ Start \/ Slice \/ ClearResults \/ FactoryReset

Spec == Init /\ [][Next]_vars

\* The test loop: every iteration queries its regions in order, runs those
\* whose zone() returned true, and ends with one slice() of the time they
\* cost; start() comes at any point of the iteration.
LoopNames == {HostNames[i] : i \in 1..nzones}

InitLoop ==
    /\ dt_state = State0
    /\ config \in Configs
    /\ results = <<>>
    /\ result_str = <<>>
    /\ crashed = FALSE
    /\ last = NoCall
    /\ ran = {}
    /\ late = {}
    /\ pass_evals = 0
    /\ pass_slices = 0
    /\ skipped = {}
    /\ repeat = FALSE
    /\ done_ms = <<>>
    /\ host_ms = 1
    /\ nzones \in 1..MaxZones
    /\ was_reset = FALSE
    /\ since_new = 0
    /\ pc = 0
    /\ call_args = <<>>
    /\ call_ret = <<>>

LoopZone ==
    /\ pc < nzones
    /\ zone(HostNames[pc + 1])
    /\ ran' = IF last'.ret THEN ran \cup {HostNames[pc + 1]} ELSE ran
    /\ pc' = pc + 1
    /\ UNCHANGED <<pass_slices, skipped, repeat, done_ms, host_ms, nzones, was_reset, since_new>>

LoopStart ==
    /\ start
    /\ pass_slices' = IF dt_state.status = "Ready" THEN 0 ELSE pass_slices
    /\ UNCHANGED <<ran, skipped, repeat, done_ms, host_ms, nzones, was_reset, since_new, pc>>

LoopSlice ==
    /\ pc = nzones
    /\ slice(host_ms * SumCost(ran))
    /\ ran' = {}
    /\ pc' = 0
    /\ pass_slices' = IF dt_state.status = "Ready" THEN pass_slices ELSE pass_slices + 1
    /\ done_ms' = IF last'.evaluated
                  THEN (IF done_ms = <<>> THEN <<host_ms>> ELSE <<done_ms[Len(done_ms)], host_ms>>)
                  ELSE done_ms
    /\ UNCHANGED <<skipped, repeat, host_ms, nzones, was_reset, since_new>>

NextLoop == LoopZone \/ LoopStart \/ LoopSlice

SpecLoop == InitLoop /\ [][NextLoop]_vars

\* The test loop on a host whose speed differs from one pass to the next.
PassStart ==
    \E t \in ElapsedValues :
        /\ start
        /\ host_ms' = IF dt_state.status = "Ready" THEN t ELSE host_ms
        /\ pass_slices' = IF dt_state.status = "Ready" THEN 0 ELSE pass_slices
        /\ UNCHANGED <<ran, skipped, repeat, done_ms, nzones, was_reset, since_new, pc>>

NextPasses == LoopZone \/ PassStart \/ LoopSlice

SpecPasses == InitLoop /\ [][NextPasses]_vars

\* The test loop of a host that configures the profiler between its passes,
\* and resets it at any time.
\* The loop has one region.
InitConfig == InitLoop /\ nzones = 1

\* The sample counts the host sets: none below 0, which zone() would hand to
\* reserve() as a size.
SampleCounts == 0..MaxSamples

hostKept == <<ran, pass_slices, skipped, repeat, done_ms, host_ms, nzones, since_new, pc>>

SetSampleCount ==
    /\ dt_state.status = "Ready"
    /\ \E n \in SampleCounts : set_sample_count(n)
    /\ UNCHANGED <<hostKept, was_reset>>

SetWarmupRuns ==
    /\ dt_state.status = "Ready"
    /\ \E n \in 0..MaxWarmup : set_warmup_runs(n)
    /\ UNCHANGED <<hostKept, was_reset>>

SetReportOutMode ==
    /\ dt_state.status = "Ready"
    /\ \E m \in ReportOutMode : set_report_out_mode(m)
    /\ UNCHANGED <<hostKept, was_reset>>

SetReportTimeMode ==
    /\ dt_state.status = "Ready"
    /\ \E m \in ReportTimeMode : set_report_time_mode(m)
    /\ UNCHANGED <<hostKept, was_reset>>

SetDoneCallback ==
    /\ dt_state.status = "Ready"
    /\ \E cb \in DoneCallback : set_done_callback(cb)
    /\ UNCHANGED <<hostKept, was_reset>>

ConfigClearResults == clear_results /\ UNCHANGED <<hostKept, was_reset>>

ConfigFactoryReset == factory_reset /\ was_reset' = TRUE /\ UNCHANGED hostKept

NextConfig ==
    \/ LoopZone \/ LoopStart \/ LoopSlice
    \/ SetSampleCount \/ SetWarmupRuns \/ SetReportOutMode
    \/ SetReportTimeMode \/ SetDoneCallback
    \/ ConfigClearResults \/ ConfigFactoryReset

SpecConfig == InitConfig /\ [][NextConfig]_vars

\* get_median() called on its own, as the tests do, on every ascending
\* sequence of up to MaxLen whole numbers of 1..MaxValue.
SortedVecs ==
    {v \in UNION {[1..n -> {Float(x) : x \in 1..MaxValue}] : n \in 0..MaxLen} :
        \A i \in 1..(Len(v) - 1) : v[i] <= v[i + 1]}

InitMedian ==
    /\ dt_state = State0
    /\ config = [target_sample_count |-> 1, warmup_runs |-> 0,
                 report_out_mode |-> "ConsoleOut", report_time_mode |-> "Ms",
                 done_cb |-> "nullptr"]
    /\ results = <<>>
    /\ result_str = <<>>
    /\ crashed = FALSE
    /\ last = NoCall
    /\ ran = {}
    /\ late = {}
    /\ pass_evals = 0
    /\ pass_slices = 0
    /\ skipped = {}
    /\ repeat = FALSE
    /\ done_ms = <<>>
    /\ host_ms = 1
    /\ nzones = 0
    /\ was_reset = FALSE
    /\ since_new = 0
    /\ pc = 0
    /\ call_args \in SortedVecs
    /\ call_ret = <<>>

CallGetMedian ==
    /\ call_ret = <<>>
    /\ call_ret' = <<get_median(call_args)>>
    /\ UNCHANGED <<dt_state, config, results, result_str, crashed, last, ran, late,
                   pass_evals, pass_slices, skipped, repeat, done_ms, host_ms,
                   nzones, was_reset, since_new, pc, call_args>>

NextMedian == CallGetMedian

SpecMedian == InitMedian /\ [][NextMedian]_vars

\* get_std_dev() called on its own with the mean of its values, on the
\* test's values and on every sequence of up to MaxLen whole numbers of
\* 1..MaxValue.
TestValues == <<72, 64, 72, 102, 65, 89, 55, 97, 78, 76>>

Vecs == UNION {[1..n -> 1..MaxValue] : n \in 0..MaxLen} \cup {TestValues}

InitStdDev ==
    /\ InitMedian!1 /\ InitMedian!2 /\ InitMedian!3 /\ InitMedian!4
    /\ crashed = FALSE
    /\ last = NoCall
    /\ ran = {}
    /\ late = {}
    /\ pass_evals = 0
    /\ pass_slices = 0
    /\ skipped = {}
    /\ repeat = FALSE
    /\ done_ms = <<>>
    /\ host_ms = 1
    /\ nzones = 0
    /\ was_reset = FALSE
    /\ since_new = 0
    /\ pc = 0
    /\ call_args \in Vecs
    /\ call_ret = <<>>

CallGetStdDev ==
    /\ call_ret = <<>>
    /\ call_ret' = <<get_std_dev(call_args, get_mean(call_args))>>
    /\ UNCHANGED <<dt_state, config, results, result_str, crashed, last, ran, late,
                   pass_evals, pass_slices, skipped, repeat, done_ms, host_ms,
                   nzones, was_reset, since_new, pc, call_args>>

NextStdDev == CallGetStdDev

SpecStdDev == InitStdDev /\ [][NextStdDev]_vars

\* get_num_str() called on its own, on every number of thousandths up to
\* MaxMilli, on the numbers around which the rounded value gains a digit, and
\* on their negatives.
NumValues ==
    LET pos == (0..MaxMilli) \cup {9499, 9500, 9999, 10000, 99000, 99100, 99499,
                                   99500, 99949, 99950, 100000, 999499, 999500}
    IN pos \cup {0 - n : n \in pos}

InitNumStr ==
    /\ InitMedian!1 /\ InitMedian!2 /\ InitMedian!3 /\ InitMedian!4
    /\ crashed = FALSE
    /\ last = NoCall
    /\ ran = {}
    /\ late = {}
    /\ pass_evals = 0
    /\ pass_slices = 0
    /\ skipped = {}
    /\ repeat = FALSE
    /\ done_ms = <<>>
    /\ host_ms = 1
    /\ nzones = 0
    /\ was_reset = FALSE
    /\ since_new = 0
    /\ pc = 0
    /\ call_args \in [num : NumValues, significant_digits : 1..MaxDigits,
                       with_sign : BOOLEAN]
    /\ call_ret = <<>>

CallGetNumStr ==
    /\ call_ret = <<>>
    /\ call_ret' = <<get_num_str(call_args.num, call_args.significant_digits,
                                 call_args.with_sign)>>
    /\ UNCHANGED <<dt_state, config, results, result_str, crashed, last, ran, late,
                   pass_evals, pass_slices, skipped, repeat, done_ms, host_ms,
                   nzones, was_reset, since_new, pc, call_args>>

NextNumStr == CallGetNumStr

SpecNumStr == InitNumStr /\ [][NextNumStr]_vars

\* get_result_str() called on its own, on results of up to MaxZones user
\* zones behind the baseline, in both time modes.
SampleStats ==
    {[median |-> 15000, mean |-> 15250, worst_time |-> 22000, std_dev |-> 1200],
     [median |-> 10000, mean |-> 10100, worst_time |-> 12000, std_dev |-> 900],
     [median |-> 5000, mean |-> 5000, worst_time |-> 5000, std_dev |-> 0],
     [median |-> 100000, mean |-> 100500, worst_time |-> 180000, std_dev |-> 20000]}

SampleNames ==
    {<<"a">>,
     <<"d", "r", "a", "w", " ", "b", "a", "c", "k", "g", "r", "o", "u", "n", "d">>}

ZoneResult(name, stats) ==
    [name |-> name, median |-> stats.median, mean |-> stats.mean,
     worst_time |-> stats.worst_time, std_dev |-> stats.std_dev]

SampleResults ==
    {<<>>} \cup
    UNION {{<<ZoneResult(<<>>, b)>> \o rest :
               b \in SampleStats,
               rest \in [1..n -> {ZoneResult(nm, st) : nm \in SampleNames,
                                                       st \in SampleStats}]} :
           n \in 0..MaxZones}

InitReport ==
    /\ InitMedian!1 /\ InitMedian!2 /\ InitMedian!3 /\ InitMedian!4
    /\ crashed = FALSE
    /\ last = NoCall
    /\ ran = {}
    /\ late = {}
    /\ pass_evals = 0
    /\ pass_slices = 0
    /\ skipped = {}
    /\ repeat = FALSE
    /\ done_ms = <<>>
    /\ host_ms = 1
    /\ nzones = 0
    /\ was_reset = FALSE
    /\ since_new = 0
    /\ pc = 0
    /\ call_args \in [lresults : SampleResults,
                       pconfig : [target_sample_count : {1}, warmup_runs : {0},
                                  report_out_mode : {"JustEval"},
                                  report_time_mode : ReportTimeMode,
                                  done_cb : {"nullptr"}]]
    /\ call_ret = <<>>

\* The call returns the lines; the table it made them of is kept with them.
CallGetResultStr ==
    /\ call_ret = <<>>
    /\ call_ret' = <<[table |-> get_result_table(call_args.lresults,
                                                 call_args.pconfig.report_time_mode),
                      lines |-> get_result_lines(call_args.lresults, call_args.pconfig)]>>
    /\ UNCHANGED <<dt_state, config, results, result_str, crashed, last, ran, late,
                   pass_evals, pass_slices, skipped, repeat, done_ms, host_ms,
                   nzones, was_reset, since_new, pc, call_args>>

NextReport == CallGetResultStr

SpecReport == InitReport /\ [][NextReport]_vars

\* The last slice call of a pass whose slice calls took times of their own:
\* the registry holds the null zone, with or without a user zone behind it,
\* with any samples of SampleValues, and the last zone lacks one sample.
SampleValues == 1..(MaxValue - 1)

SampleSeqs(n) == [1..n -> SampleValues]

InitResults ==
    /\ \E n \in 1..(MaxSamples + 1) :
          /\ config = [target_sample_count |-> n, warmup_runs |-> 0,
                       report_out_mode |-> "JustEval", report_time_mode |-> "Ms",
                       done_cb |-> "nullptr"]
          /\ \E zs \in {<<[name |-> "", frame_times |-> f]>> : f \in SampleSeqs(n - 1)}
                    \cup {<<[name |-> "", frame_times |-> f],
                             [name |-> HostNames[1], frame_times |-> g]>> :
                              f \in SampleSeqs(n), g \in SampleSeqs(n - 1)} :
                dt_state = [status |-> "Measuring", zones |-> zs,
                            target_zone |-> Len(zs) - 1,
                            recorded_slices |-> n - 1, warmup_runs_left |-> 0]
    /\ results = <<>>
    /\ result_str = <<>>
    /\ crashed = FALSE
    /\ last = NoCall
    /\ ran = {}
    /\ late = {}
    /\ pass_evals = 0
    /\ pass_slices = 0
    /\ skipped = {}
    /\ repeat = FALSE
    /\ done_ms = <<>>
    /\ host_ms = 1
    /\ nzones = 0
    /\ was_reset = FALSE
    /\ since_new = 0
    /\ pc = 0
    /\ call_args = <<>>
    /\ call_ret = <<>>

ResultsSlice ==
    /\ \E t \in SampleValues : slice(t)
    /\ UNCHANGED <<ran, pass_slices, skipped, repeat, done_ms, host_ms, nzones,
                   was_reset, since_new, pc>>

NextResults == ResultsSlice

SpecResults == InitResults /\ [][NextResults]_vars

\* A host that calls in any order, with the answers of its zone() calls kept
\* for the iteration: they are dropped at every slice, start and
\* factory_reset.
InitIter ==
    /\ Init
    /\ config.report_out_mode = "JustEval"
    /\ config.done_cb = "nullptr"
    /\ host_ms = 1

iterKept == <<pass_slices, done_ms, host_ms, nzones, was_reset, since_new, pc>>

IterZone ==
    \E n \in ZoneNames :
        /\ zone(n)
        /\ ran' = IF last'.ret THEN ran \cup {n} ELSE ran
        /\ skipped' = IF last'.ret THEN skipped ELSE skipped \cup {n}
        /\ repeat' = (n \in ran \cup skipped)
        /\ UNCHANGED iterKept

IterStart ==
    /\ start
    /\ ran' = {} /\ skipped' = {} /\ repeat' = FALSE
    /\ UNCHANGED iterKept

IterSlice ==
    /\ slice(host_ms)
    /\ ran' = {} /\ skipped' = {} /\ repeat' = FALSE
    /\ UNCHANGED iterKept

IterClearResults ==
    /\ clear_results
    /\ UNCHANGED <<ran, skipped, repeat>>
    /\ UNCHANGED iterKept

IterFactoryReset ==
    /\ factory_reset
    /\ ran' = {} /\ skipped' = {} /\ repeat' = FALSE
    /\ UNCHANGED iterKept

NextIter == IterZone \/ IterStart \/ IterSlice \/ IterClearResults \/ IterFactoryReset

SpecIter == InitIter /\ [][NextIter]_vars

\* A host with a fixed configuration that registers names at any time, calls
\* slice only once a zone() call has been made, and keeps calling slice.
liveKept == <<ran, pass_slices, skipped, repeat, done_ms, host_ms, nzones,
              was_reset, pc>>

LiveZone ==
    \E n \in ZoneNames :
        /\ zone(n)
        /\ since_new' = IF Len(dt_state'.zones) > Len(dt_state.zones) THEN 0
                        ELSE since_new
        /\ UNCHANGED liveKept

LiveStart ==
    /\ start
    /\ since_new' = IF dt_state.status = "Ready" THEN 0 ELSE since_new
    /\ UNCHANGED liveKept

LiveSlice ==
    /\ dt_state.zones # <<>>
    /\ slice(host_ms)
    /\ since_new' = IF dt_state.status = "Ready" THEN since_new ELSE since_new + 1
    /\ UNCHANGED liveKept

NextLive == LiveZone \/ LiveStart \/ LiveSlice

SpecLive == InitIter /\ [][NextLive]_vars /\ WF_vars(LiveSlice)

\* ---------------------------------------------------------------- the older header
\* src/dt.h, lines 1-466: the header with Status::GatheringZones and
\* Status::Evaluating. Its State has the same fields; its Config has
\* report_mode for the two output fields of the later one.

MaxPasses == 2

GatheringStatus == {"GatheringZones", "Ready", "Starting", "Measuring", "Evaluating"}

ReportMode == {"JustEval", "ConsoleOut"}

GatheringState0 == [status |-> "GatheringZones", zones |-> <<>>, target_zone |-> 0,
                    recorded_slices |-> 0, warmup_runs_left |-> 0]

GatheringConfigs == [report_mode : ReportMode,
                     target_sample_count : 1..MaxSamples,
                     warmup_runs : 0..MaxWarmup,
                     done_cb : DoneCallback]

\* get_results() of the older header, as far as the names and the times.
gathering_get_results(zones) ==
    [i \in 1..Len(zones) |->
        [name |-> zones[i].name,
         sorted_times |-> SortedTimes(zones[i].frame_times)]]

\* print_results(), as the name column of every row under the header.
print_results(lresults) ==
    <<"">> \o [i \in 1..Len(lresults) |->
                  IF i = 1 THEN "all:" ELSE "w/o " \o lresults[i].name \o ":"]

\* The Starting branch of slice(): zones[0].frame_times.clear() and no other
\* zone's. The status is reached through Ready only, with a null zone.
gathering_slice_starting(state, pconfig) ==
    [state EXCEPT !.target_zone = 0,
                  !.recorded_slices = 0,
                  !.warmup_runs_left = pconfig.warmup_runs,
                  !.zones = [@ EXCEPT ![1].frame_times = <<>>],
                  !.status = "Measuring"]

\* The Measuring branch of slice() evaluating at once, as the later header
\* does.
gathering_slice_measuring_evaluates(state, pconfig, time_delta_ms) ==
    IF state.warmup_runs_left > 0
    THEN [state EXCEPT !.warmup_runs_left = @ - 1]
    ELSE LET s1 == record_slice(state, time_delta_ms)
         IN IF is_sample_target_reached(s1, pconfig)
            THEN LET s2 == start_next_zone_measurement(s1)
                 IN IF are_all_zones_done(s2)
                    THEN [s2 EXCEPT !.status = "Ready"]
                    ELSE s2
            ELSE s1

\* The Measuring branch of slice().
gathering_slice_measuring(state, pconfig, time_delta_ms) ==
    IF state.warmup_runs_left > 0
    THEN [state EXCEPT !.warmup_runs_left = @ - 1]
    ELSE LET s1 == record_slice(state, time_delta_ms)
         IN IF is_sample_target_reached(s1, pconfig)
            THEN LET s2 == start_next_zone_measurement(s1)
                 IN IF are_all_zones_done(s2)
                    THEN [s2 EXCEPT !.status = "Evaluating"]
                    ELSE s2
            ELSE s1

\* start() of the older header.
gathering_start_status(status) == IF status # "Ready" THEN status ELSE "Starting"

\* slice(time_delta_ms) of the older header: the state it leaves and what the
\* Evaluating branch stores, prints and hands to the callback. The callback
\* runs before the status is set.
gathering_slice_effect(state, pconfig, time_delta_ms) ==
    LET keep(st) == [state |-> st, evaluated |-> FALSE, results |-> results,
                     printed |-> <<>>, cb_args |-> <<>>]
    IN IF state.status \in {"GatheringZones", "Ready"} THEN keep(state)
       ELSE IF state.status = "Starting"
            THEN keep(gathering_slice_starting(state, pconfig))
       ELSE IF state.status = "Measuring"
            THEN keep(gathering_slice_measuring(state, pconfig, time_delta_ms))
       ELSE LET lresults == gathering_get_results(state.zones)
                in_cb == IF pconfig.done_cb = "calls_start"
                         THEN [state EXCEPT !.status = gathering_start_status(@)]
                         ELSE state
            IN [state |-> [in_cb EXCEPT !.status = "Ready"],
                evaluated |-> TRUE,
                results |-> lresults,
                printed |-> IF pconfig.report_mode = "ConsoleOut"
                            THEN <<print_results(lresults)>> ELSE <<>>,
                cb_args |-> IF pconfig.done_cb # "nullptr"
                            THEN <<lresults>> ELSE <<>>]

\* The GatheringZones branch of zone(): the null zone goes into an empty
\* registry, then a known name ends the gathering and an unknown one is
\* registered.
gathering_zone_registered(zone_name, state) ==
    IF state.status = "GatheringZones"
    THEN LET with_null == IF state.zones = <<>>
                          THEN [state EXCEPT !.zones = <<Zone("")>>] ELSE state
         IN IF is_zone_known(zone_name, with_null)
            THEN [with_null EXCEPT !.status = "Ready"]
            ELSE [with_null EXCEPT !.zones = Append(@, Zone(zone_name))]
    ELSE state

\* What zone() returns: false only while Measuring, for the target zone,
\* when the target is not the null zone.
gathering_zone_return(zone_name, state) ==
    IF state.status = "Measuring"
    THEN IF state.target_zone = 0 THEN TRUE
         ELSE get_zone_index(zone_name, state) # state.target_zone
    ELSE TRUE

gatheringKept == <<result_str, crashed, late, pass_slices, skipped,
                   nzones, was_reset, since_new, pc, call_args, call_ret>>

InitGathering ==
    /\ dt_state = GatheringState0
    /\ config \in GatheringConfigs
    /\ results = <<>>
    /\ result_str = <<>>
    /\ crashed = FALSE
    /\ last = NoCall
    /\ ran = {}
    /\ late = {}
    /\ pass_evals = 0
    /\ pass_slices = 0
    /\ skipped = {}
    /\ repeat = FALSE
    /\ done_ms = <<>>
    /\ host_ms \in ElapsedValues
    /\ nzones = 0
    /\ was_reset = FALSE
    /\ since_new = 0
    /\ pc = 0
    /\ call_args = <<>>
    /\ call_ret = <<>>

\* zone(zone_name): the return value is computed on the status the call
\* found, the registration is done in the GatheringZones branch only.
GatheringZone ==
    \E n \in ZoneNames :
        /\ dt_state' = gathering_zone_registered(n, dt_state)
        /\ last' = [Call("zone") EXCEPT !.name = n,
                                        !.ret = gathering_zone_return(n, dt_state),
                                        !.was = dt_state.status]
        /\ ran' = ran \cup {n}
        /\ repeat' = (repeat \/ n \in ran)
        /\ UNCHANGED <<config, results, pass_evals, done_ms, host_ms, gatheringKept>>

\* start(); the host draws the frame time of the measurement it starts, and
\* starts MaxPasses measurements at most.
GatheringStart ==
    \E t \in ElapsedValues :
        /\ dt_state.status = "Ready" => Len(done_ms) < MaxPasses
        /\ dt_state' = [dt_state EXCEPT !.status = gathering_start_status(@)]
        /\ last' = [Call("start") EXCEPT !.was = dt_state.status]
        /\ host_ms' = IF dt_state.status = "Ready" THEN t ELSE host_ms
        /\ pass_evals' = IF dt_state.status = "Ready" THEN 0 ELSE pass_evals
        /\ UNCHANGED <<config, results, done_ms, ran, repeat, gatheringKept>>

\* slice(time_delta_ms); done_ms keeps the frame time of every measurement
\* that was evaluated.
GatheringSlice ==
    LET eff == gathering_slice_effect(dt_state, config, host_ms)
    IN /\ dt_state' = eff.state
       /\ results' = eff.results
       /\ last' = [Call("slice") EXCEPT !.evaluated = eff.evaluated,
                                        !.printed = eff.printed,
                                        !.cb_args = eff.cb_args,
                                        !.was = dt_state.status]
       /\ pass_evals' = IF eff.evaluated THEN pass_evals + 1 ELSE pass_evals
       /\ done_ms' = IF eff.evaluated THEN Append(done_ms, host_ms) ELSE done_ms
       /\ UNCHANGED <<config, host_ms, ran, repeat, gatheringKept>>

NextGathering == GatheringZone \/ GatheringStart \/ GatheringSlice

SpecGathering == InitGathering /\ [][NextGathering]_vars

\* ---------------------------------------------------------------- properties

S == config.target_sample_count

W == config.warmup_runs

NumZones == Len(dt_state.zones)

\* C1: zone(name) returns false exactly when the phase is Measuring, the
\* target is not the baseline, and name is the zone at the target index; in
\* every other situation it returns true.
C1_ZoneReturnsFalseIffSuppressed ==
    last.op = "zone" =>
        (last.ret = FALSE <=>
            /\ dt_state.status = "Measuring"
            /\ dt_state.target_zone # 0
            /\ \E i \in 1..NumZones :
                  /\ dt_state.zones[i].name = last.name
                  /\ i - 1 = dt_state.target_zone)

\* The second user zone is the one suppressed, and zone() said so.
C1_Witness ==
    /\ last.op = "zone"
    /\ last.ret = FALSE
    /\ dt_state.target_zone = 2

\* C2: in the test loop every sample of the baseline zone is the cost of all
\* regions, and every sample of zone i >= 1 is that cost less zone i's own:
\* its slice closed an iteration that skipped region i and ran all others.
C2_SampleAttribution ==
    \A i \in 1..NumZones :
        \A k \in 1..Len(dt_state.zones[i].frame_times) :
            dt_state.zones[i].frame_times[k] =
                SumCost(LoopNames) - (IF i = 1 THEN 0 ELSE Cost(dt_state.zones[i].name))

\* The baseline and two suppressed zones all hold samples.
C2_Witness ==
    /\ NumZones = 3
    /\ \A i \in 1..3 : Len(dt_state.zones[i].frame_times) >= 1

\* The slice calls a pass of Z user zones may take.
PassLimit == 1 + (nzones + 1) * (S + W)

\* C3: in the test loop with Z >= 1 regions a pass takes at most
\* 1 + (Z+1)*(S+W) slice calls; when it completes the phase is Ready and
\* results holds the baseline and the Z zones in registration order, each
\* with exactly S sorted times.
C3_EndToEnd ==
    /\ dt_state.status # "Ready" => pass_slices < PassLimit
    /\ last.evaluated =>
          /\ dt_state.status = "Ready"
          /\ pass_slices <= PassLimit
          /\ Len(results) = nzones + 1
          /\ \A i \in 1..Len(results) :
                /\ results[i].name = (IF i = 1 THEN "" ELSE HostNames[i - 1])
                /\ Len(results[i].sorted_times) = S

\* A pass of the largest loop with the largest sample count has completed.
C3_Witness ==
    /\ last.evaluated
    /\ nzones = MaxZones
    /\ S = MaxSamples
    /\ W = MaxWarmup

\* C4: whenever the target moves on to the next zone and the pass goes on,
\* the warmup counter is set to the configured warmup count again.
C4_WarmupRearmed ==
    [][(/\ dt_state'.target_zone = dt_state.target_zone + 1
        /\ dt_state'.status = "Measuring")
       => dt_state'.warmup_runs_left = W]_vars

\* C5 as stated: a zone first registered while Measuring is never the
\* suppression target of the running pass.
C5_LateZoneNeverTarget ==
    (/\ dt_state.status = "Measuring"
     /\ dt_state.target_zone >= 1
     /\ dt_state.target_zone < NumZones)
    => dt_state.zones[dt_state.target_zone + 1].name \notin late

\* C5 amended: a zone first registered while Measuring joins the running
\* pass: the evaluation that ends the pass holds a result for it, with
\* exactly S sorted times.
C5_LateZoneJoinsPass ==
    last.evaluated =>
        \A n \in late :
            \E i \in 2..Len(results) :
                /\ results[i].name = n
                /\ Len(results[i].sorted_times) = S

\* A pass has completed in which a zone was registered late.
C5_Witness ==
    /\ last.evaluated
    /\ late # {}

\* C6: the slice call in phase Starting records nothing, clears every zone's
\* samples, sets target_zone and recorded_slices to 0 and warmup_runs_left to
\* the configured count, keeps the names, and moves the phase to Measuring.
C6_StartingSliceResets ==
    [][(dt_state.status = "Starting" /\ last'.op = "slice") =>
        /\ dt_state'.status = "Measuring"
        /\ dt_state'.target_zone = 0
        /\ dt_state'.recorded_slices = 0
        /\ dt_state'.warmup_runs_left = W
        /\ Len(dt_state'.zones) = NumZones
        /\ \A i \in 1..NumZones :
              /\ dt_state'.zones[i].name = dt_state.zones[i].name
              /\ dt_state'.zones[i].frame_times = <<>>
        /\ ~last'.evaluated
        /\ UNCHANGED <<config, results, result_str>>]_vars

\* A second pass has just begun: the samples of the first one are gone.
C6_Witness ==
    /\ last.op = "slice"
    /\ dt_state.status = "Measuring"
    /\ W >= 1
    /\ dt_state.warmup_runs_left = W
    /\ NumZones = 3
    /\ Len(results) = 3

\* C7: a slice call in phase Measuring with warmup_runs_left > 0 takes one
\* off warmup_runs_left and changes nothing else.
C7_WarmupSliceOnlyCountsDown ==
    [][(/\ dt_state.status = "Measuring"
        /\ dt_state.warmup_runs_left > 0
        /\ last'.op = "slice") =>
        /\ dt_state' = [dt_state EXCEPT !.warmup_runs_left = @ - 1]
        /\ ~last'.evaluated
        /\ UNCHANGED <<config, results, result_str>>]_vars

\* The warmup of a pass is over and nothing was recorded.
C7_Witness ==
    /\ last.op = "slice"
    /\ dt_state.status = "Measuring"
    /\ W >= 1
    /\ dt_state.warmup_runs_left = W - 1
    /\ dt_state.target_zone = 0
    /\ dt_state.recorded_slices = 0
    /\ NumZones >= 2

\* C8: start() moves the phase from Ready to Starting and changes nothing
\* else; in Starting or Measuring it changes nothing at all.
C8_StartOnlyWhenReady ==
    [][last'.op = "start" =>
        /\ dt_state' = IF dt_state.status = "Ready"
                       THEN [dt_state EXCEPT !.status = "Starting"]
                       ELSE dt_state
        /\ UNCHANGED <<config, results, result_str>>]_vars

\* start() was called in the middle of a pass, which goes on.
C8_Witness ==
    /\ last.op = "start"
    /\ dt_state.status = "Measuring"
    /\ dt_state.recorded_slices >= 1

\* C9: slice called in phase Ready changes nothing.
C9_SliceWhenReadyIsNoOp ==
    [][(dt_state.status = "Ready" /\ last'.op = "slice") =>
        /\ UNCHANGED progVars
        /\ ~last'.evaluated
        /\ last'.printed = <<>>
        /\ last'.cb_args = <<>>]_vars

\* slice() was called in Ready after a pass: its results are still there.
C9_Witness ==
    /\ last.op = "slice"
    /\ ~last.evaluated
    /\ dt_state.status = "Ready"
    /\ Len(results) = 3
    /\ NumZones = 3

\* C10: a slice call evaluates exactly when it records the sample that
\* completes the last zone; that call stores results (one per zone) and the
\* report, hands the results to the callback once if there is one, and
\* returns with the phase Ready; a pass is evaluated once.
C10_EvaluatedOncePerPass ==
    /\ [](/\ pass_evals <= 1
          /\ dt_state.status # "Ready" => pass_evals = 0
          /\ last.evaluated =>
                /\ last.op = "slice"
                /\ dt_state.status = "Ready"
                /\ pass_evals = 1
                /\ Len(results) = NumZones
                /\ \A i \in 1..NumZones :
                      /\ results[i].name = dt_state.zones[i].name
                      /\ Len(results[i].sorted_times) = Len(dt_state.zones[i].frame_times)
                /\ Len(result_str) = NumZones + 1
                /\ last.cb_args = IF config.done_cb = "nullptr" THEN <<>> ELSE <<results>>)
    /\ [][(last'.op = "slice" /\ ~crashed') =>
            (last'.evaluated <=>
                /\ dt_state.status = "Measuring"
                /\ dt_state.warmup_runs_left <= 0
                /\ dt_state.recorded_slices + 1 >= S
                /\ dt_state.target_zone + 1 >= NumZones)]_vars

\* A pass of two user zones was evaluated and handed to the callback.
C10_Witness ==
    /\ last.evaluated
    /\ NumZones = 3
    /\ config.done_cb # "nullptr"
    /\ Len(last.cb_args) = 1

\* C11: in every state reached by zone, start, slice, clear_results and
\* factory_reset calls, recorded_slices <= target_sample_count and
\* target_zone <= zones.size().
C11_CountersWithinBounds ==
    ~crashed =>
        /\ dt_state.recorded_slices <= S
        /\ dt_state.target_zone <= NumZones

\* C12: between two consecutive slice calls, with no start or factory_reset
\* in between, no name gets both answers from zone(): all calls with the same
\* name return the same boolean, whatever names are asked or registered in
\* between.
C12_ToggleConsistency == ran \cap skipped = {}

\* The suppressed zone was asked again and suppressed again, in an iteration
\* that also asked a zone registered during the running pass.
C12_Witness ==
    /\ last.op = "zone"
    /\ repeat
    /\ last.ret = FALSE
    /\ late \cap ran # {}

\* C13: when the test loop completes a pass, the first or a later one,
\* results holds one entry per registered zone, each with exactly S times,
\* and every one of them is a time of this pass: none of an earlier pass
\* remains.
C13_NoAccumulation ==
    last.evaluated =>
        /\ Len(results) = NumZones
        /\ Len(results) = nzones + 1
        /\ \A i \in 1..Len(results) :
              /\ Len(results[i].sorted_times) = S
              /\ \A k \in 1..Len(results[i].sorted_times) :
                    results[i].sorted_times[k] =
                        host_ms * (SumCost(LoopNames) - Cost(results[i].name))

\* A second pass has completed, on a host of another speed than in the first.
C13_Witness ==
    /\ last.evaluated
    /\ Len(done_ms) = 2
    /\ done_ms[1] # done_ms[2]
    /\ nzones = MaxZones

\* C14: are_results_ready() is true once a pass has completed: the slice call
\* that evaluated has returned and the phase is Ready again.
C14_ResultsReadyAfterPass ==
    (last.evaluated /\ dt_state.status = "Ready") => are_results_ready(dt_state)

SamplesPerZone(pconfig) ==
    IF pconfig.target_sample_count < 1 THEN 1 ELSE pconfig.target_sample_count

PassSlices(pconfig) ==
    1 + pconfig.warmup_runs + (nzones + 1) * SamplesPerZone(pconfig)

\* C16: factory_reset() and clear_results() leave the whole configuration
\* as it was, and every pass, those after a factory_reset() included, is run
\* with the configured values: factory_reset() arms the configured warmup, the
\* pass takes the configured warmup and sample counts, prints when the output
\* mode says so and calls the callback when there is one.
C16_ConfigPersists ==
    /\ [][last'.op \in {"factory_reset", "clear_results"} => config' = config]_vars
    /\ [](last.op = "factory_reset" => dt_state.warmup_runs_left = config.warmup_runs)
    /\ [](last.evaluated =>
            /\ pass_slices = PassSlices(config)
            /\ \A i \in 1..Len(results) :
                  Len(results[i].sorted_times) = SamplesPerZone(config)
            /\ (last.printed # <<>>) = (config.report_out_mode = "ConsoleOut")
            /\ (last.cb_args # <<>>) = (config.done_cb # "nullptr"))

\* A pass completed after a factory_reset(), under a configuration that is
\* not the source's default one.
C16_Witness ==
    /\ was_reset
    /\ last.evaluated
    /\ config.target_sample_count = MaxSamples
    /\ config.warmup_runs = MaxWarmup
    /\ config.report_time_mode = "Fps"
    /\ config.done_cb = "calls_start"
    /\ last.printed # <<>>

\* C20: on an ascending sequence get_median returns 0 when it is empty, the
\* middle element when its length is odd and the mean of the two middle
\* elements when it is even; at most half of the elements lie below the
\* value returned and at most half above it.
C20_Median ==
    call_ret # <<>> =>
        LET v == call_args
            n == Len(v)
            m == call_ret[1]
        IN /\ n = 0 => m = 0
           /\ (n > 0 /\ n % 2 = 1) => m = v[(n + 1) \div 2]
           /\ (n > 0 /\ n % 2 = 0) => 2 * m = v[n \div 2] + v[n \div 2 + 1]
           /\ 2 * Cardinality({i \in 1..n : v[i] < m}) <= n
           /\ 2 * Cardinality({i \in 1..n : v[i] > m}) <= n

\* The median of [1,2,3,4] is 2.5.
C20_Witness ==
    /\ call_args = <<Float(1), Float(2), Float(3), Float(4)>>
    /\ call_ret = <<Float(2) + 1>>

\* C17: clear_results(), in any phase, empties results and the report and
\* leaves dt_state (registry, samples, status, target_zone, recorded_slices,
\* warmup_runs_left) and the configuration as they were; a second call right
\* after it, or a call with neither results nor report stored, changes
\* nothing; the call is always possible and does not end the process.
C17_ClearResults ==
    /\ [][last'.op = "clear_results" =>
            /\ results' = <<>>
            /\ result_str' = <<>>
            /\ dt_state' = dt_state
            /\ config' = config
            /\ ~crashed']_vars
    /\ [][(/\ last'.op = "clear_results"
            /\ \/ last.op = "clear_results"
               \/ (results = <<>> /\ result_str = <<>>)) =>
            UNCHANGED progVars]_vars
    /\ [](~crashed => ENABLED clear_results)

\* clear_results() was called in the middle of a pass that has samples.
C17_Witness ==
    /\ last.op = "clear_results"
    /\ dt_state.status = "Measuring"
    /\ \E i \in 1..NumZones : dt_state.zones[i].frame_times # <<>>
    /\ dt_state.target_zone > 0

\* C18: after set_sample_count(n) the configured sample count is at least 2,
\* and every evaluation has a positive divisor for the standard deviation of
\* every zone.
C18_SampleCountValid ==
    /\ last.op = "set_sample_count" => config.target_sample_count >= 2
    /\ last.evaluated =>
          \A i \in 1..Len(results) : std_dev_divisor(results[i].sorted_times) > 0

RegistryNames(state) == [i \in 1..Len(state.zones) |-> state.zones[i].name]

\* C19: the names of the registry are pairwise distinct and a non-empty
\* registry starts with the null zone; a zone(name) call appends the null
\* zone to an empty registry and then name if it is not registered, and
\* changes nothing else of the names, so a registered name adds nothing and
\* moves nothing; start, slice and clear_results leave the names alone.
C19_RegistryInvariant ==
    /\ [](/\ \A i, j \in 1..NumZones :
                i # j => dt_state.zones[i].name # dt_state.zones[j].name
          /\ NumZones > 0 => dt_state.zones[1].name = "")
    /\ [][last'.op = "zone" =>
            LET old == RegistryNames(dt_state)
                new == RegistryNames(dt_state')
                name == last'.name
                known == \E i \in 1..Len(old) : old[i] = name
            IN /\ known => new = old
               /\ new = old \o (IF old = <<>> THEN <<"">> ELSE <<>>)
                            \o (IF known \/ name = "" THEN <<>> ELSE <<name>>)]_vars
    /\ [][last'.op \in {"start", "slice", "clear_results"} =>
            RegistryNames(dt_state') = RegistryNames(dt_state)]_vars

\* A zone() call for a name registered before another one.
C19_Witness ==
    /\ NumZones = 3
    /\ last.op = "zone"
    /\ last.name = dt_state.zones[2].name

\* C21: for two values or more, the square of get_std_dev(v, mean(v)) times
\* (n - 1) is the sum of the squared deviations from the mean, which is the
\* sum of the squares less the square of the sum over n.
C21_BesselCorrected ==
    (call_ret # <<>> /\ Len(call_args) >= 2) =>
        LET v == call_args
            n == Len(v)
            sq == call_ret[1].sqrt_of
            sum == SeqSum(v)
            sum_sq == SeqSum([i \in 1..n |-> v[i] * v[i]])
        IN /\ sq.den > 0
           /\ sq.num * (n - 1) * n = sq.den * (n * sum_sq - sum * sum)

\* The test's values: 2018 over 9, whose root lies between 14.974 and 14.975.
C21_Witness ==
    /\ call_args = TestValues
    /\ call_ret # <<>>
    /\ call_ret[1].sqrt_of.num * 9 = 2018 * call_ret[1].sqrt_of.den
    /\ 14974 * 14974 * 9 <= 2018 * 1000000
    /\ 2018 * 1000000 < 14975 * 14975 * 9

\* What a string of digits reads as; -1 if it is empty or holds another
\* character.
RECURSIVE ParseDigits(_)
ParseDigits(str) ==
    IF str = <<>> THEN 0 - 1
    ELSE LET d == {k \in 0..9 : DigitChars[k + 1] = str[Len(str)]}
         IN IF d = {} THEN 0 - 1
            ELSE IF Len(str) = 1 THEN CHOOSE k \in d : TRUE
            ELSE LET front == ParseDigits(SubSeq(str, 1, Len(str) - 1))
                 IN IF front < 0 THEN 0 - 1 ELSE 10 * front + (CHOOSE k \in d : TRUE)

\* The whole number nearest to num / den, for num >= 0: the one that is at
\* most a half above it and less than a half below it.
NearestWhole(num, den) ==
    CHOOSE r \in 0..(num \div den + 1) :
        /\ 2 * r * den - den <= 2 * num
        /\ 2 * num < 2 * r * den + den

\* C22: when the value rounded to the nearest whole number has at least
\* significant_digits digits, get_num_str prints that whole number, without
\* a point and without leading zeros, behind "+" or "-" when with_sign is
\* set and behind nothing when it is not.
C22_WholeNumber ==
    call_ret # <<>> =>
        LET num == call_args.num
            rounded == NearestWhole(Abs(num), Scale)
            out == call_ret[1]
            body == IF call_args.with_sign THEN Tail(out) ELSE out
        IN rounded >= Pow10(call_args.significant_digits - 1) =>
              /\ out # <<>>
              /\ call_args.with_sign => out[1] = (IF num < 0 THEN "-" ELSE "+")
              /\ ParseDigits(body) = rounded
              /\ body[1] # "0"

\* get_num_str(99.5, 2, true) is "+100".
C22_Witness ==
    /\ call_args = [num |-> 99500, significant_digits |-> 2, with_sign |-> TRUE]
    /\ call_ret = <<(<<"+", "1", "0", "0">>)>>

\* C23: for a value that is not negative, has k digits before the point and,
\* rounded to a whole number, fewer than significant_digits digits,
\* get_num_str without sign prints the integer part, a point and
\* significant_digits - k characters, and what it prints reads as the value
\* rounded at that many decimal places.
C23_FractionalSuffix ==
    call_ret # <<>> =>
        LET num == call_args.num
            d == call_args.significant_digits
            k == IF num < Scale THEN 0 ELSE Len(to_string(num \div Scale))
            out == call_ret[1]
            point == {p \in 1..Len(out) : out[p] = "."}
        IN (/\ num >= 0
            /\ ~call_args.with_sign
            /\ k < d
            /\ NearestWhole(num, Scale) < Pow10(d - 1)) =>
              /\ Cardinality(point) = 1
              /\ \A p \in point :
                    /\ Len(out) - p = d - k
                    /\ ParseDigits(SubSeq(out, 1, p - 1)) >= 0
                    /\ ParseDigits(SubSeq(out, p + 1, Len(out))) >= 0
                    /\ ParseDigits(SubSeq(out, 1, p - 1)) * Pow10(d - k)
                          + ParseDigits(SubSeq(out, p + 1, Len(out)))
                       = NearestWhole(num * Pow10(d - k), Scale)

\* A line with every run of blanks made one blank and the blanks before the
\* end of the line taken out.
RECURSIVE Squeeze(_)
Squeeze(line) ==
    IF Len(line) < 2 THEN line
    ELSE IF line[1] = " " /\ line[2] \in {" ", "\n"} THEN Squeeze(Tail(line))
    ELSE <<line[1]>> \o Squeeze(Tail(line))

HasParen(cell) == \E p \in 1..Len(cell) : cell[p] = "("

StatOf(result, col) ==
    CASE col = "median" -> result.median
      [] col = "mean" -> result.mean
      [] col = "worst" -> result.worst_time

\* C24: the report is a header line and one line per result, in the order of
\* the results. The first is labelled "all" and its median, mean and worst
\* cells have no parenthesis; every other one is labelled "w/o " and the
\* zone's name, and each of these cells ends with " (", a sign, a percentage
\* and "%)": the sign is "-" exactly when, in milliseconds, the zone's value
\* is below the baseline's, and a percentage of two digits or more is the
\* difference in hundredths of the baseline's value, rounded. No std-dev
\* cell has a parenthesis.
C24_ReportRows ==
    call_ret # <<>> =>
        LET rs == call_args.lresults
            t == call_ret[1].table
            lines == call_ret[1].lines
            ms == call_args.pconfig.report_time_mode = "Ms"
        IN /\ Len(lines) = 1 + Len(rs)
           /\ \A i \in 1..Len(rs) :
                LET label == IF i = 1 THEN <<"a", "l", "l">>
                             ELSE <<"w", "/", "o", " ">> \o rs[i].name
                IN /\ Squeeze(lines[i + 1]) =
                        label \o <<":", " ">> \o t.median.cells[i] \o <<" ">>
                              \o t.mean.cells[i] \o <<" ">> \o t.worst.cells[i]
                              \o <<" ">> \o t.std_dev.cells[i] \o <<"\n">>
                   /\ ~HasParen(t.std_dev.cells[i])
                   /\ \A col \in {"median", "mean", "worst"} :
                        LET cell == t[col].cells[i]
                            open == {p \in 1..Len(cell) : cell[p] = "("}
                            diff == StatOf(rs[i], col) - StatOf(rs[1], col)
                            pct == NearestWhole(100 * Abs(diff), StatOf(rs[1], col))
                        IN IF i = 1 THEN ~HasParen(cell)
                           ELSE /\ Cardinality(open) = 1
                                /\ \A p \in open :
                                     /\ p > 2 /\ p + 2 < Len(cell)
                                     /\ cell[p - 1] = " "
                                     /\ cell[p + 1] \in {"+", "-"}
                                     /\ SubSeq(cell, Len(cell) - 1, Len(cell)) = <<"%", ")">>
                                     /\ ms => (cell[p + 1] = "-") = (diff < 0)
                                     /\ (ms /\ pct >= 10) =>
                                           ParseDigits(SubSeq(cell, p + 2, Len(cell) - 2)) = pct

\* A report of the baseline and MaxZones user zones, one of them slower than
\* the baseline by more than a tenth.
C24_Witness ==
    /\ call_ret # <<>>
    /\ Len(call_ret[1].lines) = MaxZones + 2
    /\ call_args.pconfig.report_time_mode = "Ms"
    /\ \E i \in 2..Len(call_args.lresults) :
          10 * call_args.lresults[i].median > 11 * call_args.lresults[1].median
    /\ \E i \in 2..Len(call_args.lresults) :
          call_args.lresults[i].median < call_args.lresults[1].median

\* C25: with the width of a column taken as the largest of the lengths of
\* its header label and of its cells, the label in the header line and the
\* cell in every other line start where the widths of the columns before
\* them, and a blank after each, put them.
C25_ColumnsAligned ==
    call_ret # <<>> =>
        LET rs == call_args.lresults
            t == call_ret[1].table
            lines == call_ret[1].lines
            labels == <<get_united_str(<<"m", "e", "d", "i", "a", "n">>, call_args.pconfig),
                        get_united_str(<<"m", "e", "a", "n">>, call_args.pconfig),
                        get_united_str(<<"w", "o", "r", "s", "t">>, call_args.pconfig),
                        <<"s", "t", "d", " ", "d", "e", "v", "[", "%", "]">> >>
            cols == <<t.median, t.mean, t.worst, t.std_dev>>
            Largest(set) == CHOOSE w \in set : \A k \in set : k <= w
            width == [c \in 1..4 |->
                        Largest({Len(labels[c])}
                                \cup {Len(cols[c].cells[i]) : i \in 1..Len(rs)})]
            name_width == Largest({3} \cup {Len(rs[i].name) : i \in 1..Len(rs)}) + 5
            offset == [c \in 1..4 |->
                        name_width + 2 + SeqSum([k \in 1..(c - 1) |-> width[k] + 1])]
            At(line, from, str) ==
                /\ from + Len(str) - 1 <= Len(line)
                /\ SubSeq(line, from, from + Len(str) - 1) = str
        IN \A c \in 1..4 :
              /\ At(lines[1], offset[c], labels[c])
              /\ \A i \in 1..Len(rs) : At(lines[i + 1], offset[c], cols[c].cells[i])

OtherOutMode(pconfig) ==
    [pconfig EXCEPT !.report_out_mode =
        IF @ = "ConsoleOut" THEN "JustEval" ELSE "ConsoleOut"]

\* C26: an evaluation stores the results of the registry and their report
\* whatever the output mode; it prints the report once in ConsoleOut mode and
\* nothing in JustEval mode, and a call that does not evaluate prints
\* nothing; with the other output mode the same slice call would have left
\* the same state, results, report and callback argument.
C26_OutputModeOnlyPrints ==
    /\ [](last.evaluated =>
            /\ results = get_results(dt_state.zones)
            /\ result_str = get_result_str(results)
            /\ config.report_out_mode = "ConsoleOut" => last.printed = <<result_str>>
            /\ config.report_out_mode = "JustEval" => last.printed = <<>>
            /\ config.done_cb # "nullptr" => last.cb_args = <<results>>)
    /\ [](~last.evaluated => last.printed = <<>>)
    /\ [][last'.evaluated =>
            LET other == slice_effect(dt_state, OtherOutMode(config), host_ms)
            IN /\ other.evaluated
               /\ other.state = dt_state'
               /\ other.results = results'
               /\ other.result_str = result_str'
               /\ other.cb_args = last'.cb_args
               /\ other.printed # last'.printed]_vars

\* An evaluation in ConsoleOut mode with a callback, of a registry with a
\* user zone.
C26_Witness ==
    /\ last.evaluated
    /\ config.report_out_mode = "ConsoleOut"
    /\ config.done_cb # "nullptr"
    /\ last.printed = <<result_str>>
    /\ Len(results) >= 2

\* C27: for a host with a fixed configuration and a registry that is not
\* empty, which keeps calling slice, every start() that is accepted is
\* followed by an evaluation that leaves the status Ready; and a slice call
\* evaluates only when target_sample_count slice calls or more were made
\* since a name was last registered, so that no pass ends while names are
\* registered more often than that.
C27_PassTerminates ==
    /\ (dt_state.status = "Starting" /\ dt_state.zones # <<>>)
          ~> (last.evaluated /\ dt_state.status = "Ready")
    /\ [](last.evaluated => since_new >= S)
    /\ [](~crashed)

\* A pass ended as soon as it could after a name was registered in the
\* middle of it: the sample that was being taken, and those of the new zone.
C27_Witness ==
    /\ last.evaluated
    /\ late # {}
    /\ since_new = S + 1
    /\ NumZones = 3

Occurrences(seq, v) == Cardinality({k \in 1..Len(seq) : seq[k] = v})

\* C28: the results of an evaluation hold, for every zone and in the order
\* of the registry, the zone's name, its samples in ascending order (each
\* value as often as it was recorded) and a worst_time that no sample
\* exceeds; the evaluating slice call leaves the samples of the registry in
\* the order they were recorded, with its own sample behind those of the
\* last zone.
C28_GetResults ==
    /\ [](last.evaluated =>
            /\ Len(results) = NumZones
            /\ \A i \in 1..NumZones :
                 LET times == dt_state.zones[i].frame_times
                     sorted == results[i].sorted_times
                 IN /\ results[i].name = dt_state.zones[i].name
                    /\ Len(sorted) = Len(times)
                    /\ \A k \in 1..(Len(sorted) - 1) : sorted[k] <= sorted[k + 1]
                    /\ \A v \in SampleValues : Occurrences(sorted, v) = Occurrences(times, v)
                    /\ \A k \in 1..Len(times) : times[k] <= worst_time(sorted)
                    /\ \E k \in 1..Len(times) : times[k] = worst_time(sorted))
    /\ [][last'.evaluated =>
            /\ Len(dt_state'.zones) = NumZones
            /\ \A i \in 1..NumZones :
                 LET before == dt_state.zones[i].frame_times
                     after == dt_state'.zones[i].frame_times
                 IN IF i = NumZones
                    THEN Len(after) = Len(before) + 1
                         /\ SubSeq(after, 1, Len(before)) = before
                    ELSE after = before]_vars

\* An evaluation of a user zone whose samples were not recorded in
\* ascending order.
C28_Witness ==
    /\ last.evaluated
    /\ NumZones = 2
    /\ \E k \in 1..(Len(dt_state.zones[2].frame_times) - 1) :
          dt_state.zones[2].frame_times[k] > dt_state.zones[2].frame_times[k + 1]
    /\ results[2].sorted_times # dt_state.zones[2].frame_times

IsPrefix(front, seq) ==
    /\ Len(front) <= Len(seq)
    /\ SubSeq(seq, 1, Len(front)) = front

\* C29: a zone() call, in any phase, leaves the status, target_zone,
\* recorded_slices, warmup_runs_left, every zone of the registry with its
\* samples, the results and the report as they were; what it adds to the
\* registry, behind the zones that were there, has no samples and is the
\* null zone, the name, or the null zone and then the name.
C29_ZoneOnlyAppends ==
    [][last'.op = "zone" =>
         /\ dt_state'.status = dt_state.status
         /\ dt_state'.target_zone = dt_state.target_zone
         /\ dt_state'.recorded_slices = dt_state.recorded_slices
         /\ dt_state'.warmup_runs_left = dt_state.warmup_runs_left
         /\ results' = results
         /\ result_str' = result_str
         /\ config' = config
         /\ IsPrefix(dt_state.zones, dt_state'.zones)
         /\ SubSeq(dt_state'.zones, NumZones + 1, Len(dt_state'.zones))
               \in {<<>>, <<Zone("")>>, <<Zone(last'.name)>>,
                    <<Zone(""), Zone(last'.name)>>}]_vars

\* A name was registered in the middle of a pass that has samples, with the
\* results of an earlier pass stored.
C29_Witness ==
    /\ last.op = "zone"
    /\ last.name \in late
    /\ dt_state.status = "Measuring"
    /\ dt_state.recorded_slices > 0
    /\ dt_state.zones[1].frame_times # <<>>
    /\ results # <<>>

\* C30: a slice, start, clear_results or zone call leaves the names of the
\* registry, in their order, at the front of the names after it, and only
\* factory_reset makes the registry shorter; reset_state, in any state,
\* keeps the status and the names.
C30_NamesOnlyRemovedByFactoryReset ==
    /\ [][last'.op \in {"slice", "start", "clear_results", "zone"} =>
            IsPrefix(RegistryNames(dt_state), RegistryNames(dt_state'))]_vars
    /\ [][Len(dt_state'.zones) < NumZones => last'.op = "factory_reset"]_vars
    /\ [](/\ reset_state(dt_state, config).status = dt_state.status
          /\ RegistryNames(reset_state(dt_state, config)) = RegistryNames(dt_state))

\* The slice call that leaves Starting has reset a registry of three zones,
\* with the results of an earlier pass stored.
C30_Witness ==
    /\ last.op = "slice"
    /\ dt_state.status = "Measuring"
    /\ NumZones = 3
    /\ \A i \in 1..NumZones : dt_state.zones[i].frame_times = <<>>
    /\ dt_state.warmup_runs_left = W
    /\ Len(results) = 3

\* C31: in the older header the status leaves GatheringZones only in a
\* zone() call, for Ready, and does so in exactly the zone() calls whose
\* name was in the registry before the call; the names of the registry
\* change only while GatheringZones; a start() or slice() call made while
\* GatheringZones changes nothing; and the status is GatheringZones or
\* Ready as long as no name has been passed to zone() twice.
C31_GatheringUntilSeenTwice ==
    /\ [][dt_state.status = "GatheringZones" /\ last'.op = "zone" =>
            (dt_state'.status = "Ready" <=> is_zone_known(last'.name, dt_state))]_vars
    /\ [][dt_state.status = "GatheringZones" /\ dt_state'.status # "GatheringZones" =>
            last'.op = "zone" /\ dt_state'.status = "Ready"]_vars
    /\ [][RegistryNames(dt_state') # RegistryNames(dt_state) =>
            dt_state.status = "GatheringZones" /\ last'.op = "zone"]_vars
    /\ [][dt_state.status = "GatheringZones" /\ last'.op \in {"start", "slice"} =>
            dt_state' = dt_state /\ results' = results]_vars
    /\ [](dt_state.status \in {"Starting", "Measuring", "Evaluating"} => repeat)

\* C32: in the older header, when a measurement that is not the first has
\* been evaluated, the result of every zone, the baseline and the user
\* zones, holds target_sample_count times, each of them the frame time of
\* that measurement.
C32_GatheringNoAccumulation ==
    last.evaluated /\ Len(done_ms) >= 2 =>
        \A i \in 1..Len(results) :
            /\ Len(results[i].sorted_times) = S
            /\ \A k \in 1..Len(results[i].sorted_times) :
                  results[i].sorted_times[k] = done_ms[Len(done_ms)]

\* C33: in the older header the slice call that records the last sample of
\* the last zone appends its time, sets the status to Evaluating and
\* computes, prints and hands over nothing; the next slice call stores the
\* results of the zones as they are, prints them in ConsoleOut mode, hands
\* them to the callback if there is one, records nothing and leaves the
\* status Ready, and no other call evaluates; a zone() call made while
\* Evaluating returns true whatever the name, and it and a start() call
\* made while Evaluating change nothing.
C33_GatheringEvaluatesOneSliceLater ==
    /\ [][/\ dt_state.status = "Measuring"
          /\ last'.op = "slice"
          /\ dt_state.warmup_runs_left = 0
          /\ dt_state.target_zone = NumZones - 1
          /\ dt_state.recorded_slices + 1 >= S
          => /\ dt_state'.status = "Evaluating"
             /\ dt_state'.zones[NumZones].frame_times =
                   Append(dt_state.zones[NumZones].frame_times, host_ms)
             /\ ~last'.evaluated
             /\ last'.printed = <<>>
             /\ last'.cb_args = <<>>
             /\ results' = results]_vars
    /\ [][dt_state'.status = "Evaluating" /\ dt_state.status # "Evaluating" =>
             /\ dt_state.status = "Measuring"
             /\ last'.op = "slice"
             /\ dt_state.target_zone = NumZones - 1]_vars
    /\ [][dt_state.status = "Evaluating" /\ last'.op = "slice" =>
             /\ last'.evaluated
             /\ results' = gathering_get_results(dt_state.zones)
             /\ last'.printed = IF config.report_mode = "ConsoleOut"
                                THEN <<print_results(results')>> ELSE <<>>
             /\ last'.cb_args = IF config.done_cb # "nullptr"
                                THEN <<results'>> ELSE <<>>
             /\ dt_state' = [dt_state EXCEPT !.status = "Ready"]]_vars
    /\ [][last'.evaluated => dt_state.status = "Evaluating" /\ last'.op = "slice"]_vars
    /\ [][dt_state.status = "Evaluating" /\ last'.op \in {"zone", "start"} =>
             /\ last'.ret
             /\ dt_state' = dt_state
             /\ results' = results]_vars

\* The slice call made while Evaluating has stored the results of three
\* zones and handed them to a callback that calls start(); the status is
\* Ready.
C33_Witness ==
    /\ last.op = "slice"
    /\ last.was = "Evaluating"
    /\ last.evaluated
    /\ config.done_cb = "calls_start"
    /\ last.cb_args = <<results>>
    /\ Len(results) = 3
    /\ dt_state.status = "Ready"

\* C34: whatever zone, start, slice and factory_reset calls were made, a
\* state in which a slice call records a sample (the status is Measuring
\* and no warmup run is left) has target_zone < zones.size(), and no slice
\* call ends the process by writing outside the registry.
C34_RecordInBounds ==
    /\ ~crashed
    /\ (dt_state.status = "Measuring" /\ dt_state.warmup_runs_left <= 0 =>
            dt_state.target_zone < NumZones)

\* C35: a zone("") call, in any phase and for any target, returns true,
\* finds the empty name at index 0 of the registry, adds nothing to the
\* registry but the null zone when the registry was empty, and changes
\* nothing else; no zone behind the null zone and no result behind the
\* baseline's has the empty name.
C35_EmptyNameIsNullZone ==
    /\ [][last'.op = "zone" /\ last'.name = "" =>
            /\ last'.ret
            /\ get_zone_index("", dt_state') = 0
            /\ dt_state' = [dt_state EXCEPT
                              !.zones = IF @ = <<>> THEN <<Zone("")>> ELSE @]
            /\ results' = results
            /\ result_str' = result_str]_vars
    /\ [](/\ \A i \in 2..NumZones : dt_state.zones[i].name # ""
          /\ \A i \in 2..Len(results) : results[i].name # "")

\* zone("") was called while a user zone was the target, in a pass that
\* follows an evaluation of three zones.
C35_Witness ==
    /\ last.op = "zone"
    /\ last.name = ""
    /\ dt_state.status = "Measuring"
    /\ dt_state.target_zone = 2
    /\ NumZones = 3
    /\ Len(results) = 3

\* C36: the completion callback is called with the status Measuring and
\* target_zone equal to zones.size(); a start() call it makes leaves the
\* status Measuring; and the status is Ready, never Starting, when the
\* slice call that evaluated returns.
C36_CallbackRunsWhileMeasuring ==
    last.op = "slice" /\ last.evaluated =>
        /\ dt_state.status = "Ready"
        /\ config.done_cb # "nullptr" =>
              /\ Len(last.cb_saw) = 1
              /\ last.cb_saw[1].status = "Measuring"
              /\ last.cb_saw[1].left = "Measuring"
              /\ last.cb_saw[1].target_zone = last.cb_saw[1].zones_size

====
